---- MODULE Spec2Model ----
(***************************************************************************)
(* Model of ApplicationSettings (src/src/applicationsettings.cpp): the     *)
(* source-image list with its persisted customSourceImages list, the       *)
(* recent-projects list with its persisted recentProjects array, the       *)
(* selected image of the source list, and the useLegacyShaders and code    *)
(* font preferences.                                                       *)
(*                                                                         *)
(* Lists (QList) are sequences; the C++ index i is position i + 1 here.    *)
(* The QSettings array recentProjects is kept key by key: one slot per     *)
(* array index holding the projectName / projectFile keys ("" = key        *)
(* absent, which is what value().toString() reads) and the size key.       *)
(***************************************************************************)
EXTENDS Integers, Sequences, FiniteSets, TLC

----------------------------------------------------------------------------
(* Bounds of the model *)

\* number of distinct custom image paths offered to addSourceImage
NumCustomPaths == 3
\* number of operations in one behaviour of the source-image specification
MaxSourceOps == 5
\* number of distinct project files offered in the recent-projects specification
NumRecentFiles == 3
\* number of operations in one behaviour of the recent-projects specification
MaxRecentOps == 6
\* number of operations in one behaviour of the specification of all five
\* list operations
MaxNotifyOps == 5

----------------------------------------------------------------------------
(* Program constants *)

defaultSources ==
    << "defaultnodes/images/qt_logo_green_rgb.png",
       "defaultnodes/images/quit_logo.png",
       "defaultnodes/images/whitecircle.png",
       "defaultnodes/images/blackcircle.png" >>

QQEM_DATA_PATH == "/data/"

max_items == 6

DEFAULT_CODE_FONT_FILE == "fonts/SourceCodePro-Regular.ttf"

DEFAULT_CODE_FONT_SIZE == 14

\* project files offered in the update-only specification: one more than the
\* list holds, so that a prepend to a full list happens
NumUpdateFiles == max_items + 1

----------------------------------------------------------------------------
(* Input domains *)

CustomPathNames == << "img1.png", "img2.png", "file:///img3.png", "img4.png", "img5.png" >>
CustomPaths == { CustomPathNames[i] : i \in 1..NumCustomPaths }

ProjectFileNames == << "/a", "/b", "/c", "/d", "/e", "/f", "/g", "/h", "/i" >>
ProjectNames     == << "A", "B", "C", "D", "E", "F", "G", "H", "I" >>

\* (name, file) pairs passed to updateRecentProjectsModel: one named project
\* per file, the first file also under a second name, and calls with an empty
\* name and / or an empty file.
NamedProjects(n) ==
    { [name |-> ProjectNames[i], file |-> ProjectFileNames[i]] : i \in 1..n }

ProjectInputs(n) ==
    NamedProjects(n)
    \cup { [name |-> "A2", file |-> ProjectFileNames[1]],
           [name |-> "",   file |-> ProjectFileNames[1]],
           [name |-> "",   file |-> ProjectFileNames[2]],
           [name |-> "A",  file |-> ""],
           [name |-> "",   file |-> ""] }

UpdateInputs(n) ==
    NamedProjects(n)
    \cup { [name |-> "A2", file |-> ProjectFileNames[1]],
           [name |-> "",   file |-> ProjectFileNames[2]],
           [name |-> "",   file |-> ""] }

ProjectFiles(n) == { ProjectFileNames[i] : i \in 1..n }

----------------------------------------------------------------------------
VARIABLES
    running,            \* the process is alive (FALSE once a Q_ASSERT aborted it)
    sourceImages,       \* m_sourceImagesModel->m_modelList
    customSourceImages, \* m_settings: KEY_CUSTOM_SOURCE_IMAGES
    recentProjects,     \* m_recentProjectsModel->m_modelList
    recentSlots,        \* m_settings: recentProjects/<i+1>/{projectName,projectFile}
    recentSize,         \* m_settings: recentProjects/size
    last,               \* the last operation: its arguments, result and code path
    nOps,               \* operations performed (bounded specifications)
    rt,                 \* observer: add-then-remove round trip of the source list
    obs,                \* observer: files passed to updateRecentProjectsModel
    prefs,              \* m_settings: useLegacyShaders, codeFontFile, codeFontSize
    currentIndex,       \* m_sourceImagesModel->m_currentIndex
    events              \* what the last operation did, in the order it did it

vars == << running, sourceImages, customSourceImages, recentProjects,
           recentSlots, recentSize, last, nOps, rt, obs, prefs, currentIndex,
           events >>

----------------------------------------------------------------------------
(* QList helpers *)

Min(a, b) == IF a < b THEN a ELSE b

\* QList::removeAt(i) with 0 <= i < size (i is the C++ index)
RemoveAt(list, i) ==
    [ k \in 1..(Len(list) - 1) |-> IF k <= i THEN list[k] ELSE list[k + 1] ]

\* QList::removeLast() on a non-empty list
RemoveLast(list) == SubSeq(list, 1, Len(list) - 1)

\* mutant of MoveToFront: the entry changes places with the first one
MoveToFront_swap(list, from) ==
    [ k \in 1..Len(list) |-> IF k = 1 THEN list[from + 1]
                             ELSE IF k = from + 1 THEN list[1] ELSE list[k] ]

\* QList::move(from, 0) with 0 <= from < size
MoveToFront(list, from) == << list[from + 1] >> \o RemoveAt(list, from)

\* QList::removeAt(i) as the build may execute it.  In range it removes the
\* element.  Out of range the Qt 6 precondition (Q_ASSERT_X "index out of
\* range") is broken: a build with assertions aborts, a build without them
\* runs the erase on memory outside the list, which may leave the list as it
\* was or shrink it by one.
removeAtOutcomes(list, i) ==
    IF 0 <= i /\ i < Len(list)
    THEN { [aborted |-> FALSE, list |-> RemoveAt(list, i)] }
    ELSE { [aborted |-> TRUE,  list |-> list],
           [aborted |-> FALSE, list |-> list] }
         \cup { [aborted |-> FALSE, list |-> RemoveLast(list)] : x \in IF list = << >> THEN {} ELSE {1} }

----------------------------------------------------------------------------
(* Collaborators of the source-image list *)

\* EffectManager::relativeToAbsolutePath(path, base): the path under the data root
relativeToAbsolutePath(path, base) == base \o path

\* QUrl(sourceImage).toLocalFile(): the local path of a file: URL, empty for
\* every string that is no file: URL
toLocalFile(sourceImage) ==
    IF sourceImage = "file:///img3.png" THEN "/img3.png" ELSE ""

\* QImageReader(file): canRead() and size()
imageReaderCanRead(file) == file \in { "/img3.png" }
imageReaderSize(file) == [width |-> 32, height |-> 16]

\* ImagesModel::ImagesData as addSourceImage fills it
ImagesData(sourceImage, canRemove) ==
    LET sourceImageFile == toLocalFile(sourceImage)
        imageSize == IF imageReaderCanRead(sourceImageFile)
                     THEN imageReaderSize(sourceImageFile)
                     ELSE [width |-> 0, height |-> 0]
    IN  [ name |-> "", file |-> sourceImage, width |-> imageSize.width,
          height |-> imageSize.height, canRemove |-> canRemove ]

\* QStringList::contains
Contains(list, s) == \E k \in 1..Len(list) : list[k] = s

----------------------------------------------------------------------------
(* addSourceImage *)

\* mutant of isDuplicate: only the last entry is compared
isDuplicate_lastOnly(images, sourceImage) ==
    images # << >> /\ images[Len(images)].file = sourceImage

\* the duplicate scan of addSourceImage: some entry has this file
isDuplicate(images, sourceImage) ==
    \E k \in 1..Len(images) : images[k].file = sourceImage

\* the customSourceImages list after a successful add
addToSettings(custom, file, canRemove) ==
    IF canRemove /\ ~Contains(custom, file) THEN Append(custom, file) ELSE custom

\* addSourceImage on a given list and settings list: the return value and both lists after
addSourceImageResult(images, custom, sourceImage, canRemove) ==
    IF sourceImage = "" THEN
        [ret |-> FALSE, images |-> images, custom |-> custom]
    ELSE IF isDuplicate(images, sourceImage) THEN
        [ret |-> FALSE, images |-> images, custom |-> custom]
    ELSE
        LET d == ImagesData(sourceImage, canRemove)
        IN  [ ret    |-> TRUE,
              images |-> Append(images, d),
              custom |-> addToSettings(custom, d.file, canRemove) ]

----------------------------------------------------------------------------
(* What an operation does that the rest of the program can see: a model's  *)
(* reset notifications, the change of its list between them, a write to    *)
(* the settings, a signal, a call into the effect manager                  *)

Ev(kind, of) == [ kind |-> kind, of |-> of ]

\* mutant of resetEvents: the list is changed before beginResetModel
resetEvents_changeFirst(model) ==
    << Ev("change", model), Ev("beginResetModel", model), Ev("endResetModel", model) >>

\* beginResetModel(); <the list is changed>; endResetModel();
resetEvents(model) ==
    << Ev("beginResetModel", model), Ev("change", model), Ev("endResetModel", model) >>

\* mutant of addSourceImageEvents: the settings are written before the reset
addSourceImageEvents_writeFirst(images, custom, sourceImage, canRemove) ==
    LET r == addSourceImageResult(images, custom, sourceImage, canRemove)
    IN  IF ~r.ret THEN << >>
        ELSE (IF r.custom # custom THEN << Ev("write", "customSourceImages") >> ELSE << >>)
             \o resetEvents("sourceImages")

\* addSourceImage: the reset of the model, then the setValue of the settings
addSourceImageEvents(images, custom, sourceImage, canRemove) ==
    LET r == addSourceImageResult(images, custom, sourceImage, canRemove)
    IN  IF ~r.ret THEN << >>
        ELSE resetEvents("sourceImages")
             \o (IF r.custom # custom THEN << Ev("write", "customSourceImages") >> ELSE << >>)

NoOp == [ op |-> "none", name |-> "", file |-> "", index |-> -1,
          canRemove |-> FALSE, ret |-> "void", path |-> "",
          flag |-> FALSE, size |-> 0 ]

BoolRet(b) == IF b THEN "true" ELSE "false"

addSourceImage(sourceImage, canRemove) ==
    LET r == addSourceImageResult(sourceImages, customSourceImages, sourceImage, canRemove)
    IN  /\ sourceImages' = r.images
        /\ customSourceImages' = r.custom
        /\ UNCHANGED running
        /\ last' = [ NoOp EXCEPT !.op = "addSourceImage", !.file = sourceImage,
                                 !.canRemove = canRemove, !.ret = BoolRet(r.ret) ]
        /\ events' = addSourceImageEvents(sourceImages, customSourceImages,
                                          sourceImage, canRemove)

----------------------------------------------------------------------------
(* The constructor *)

RECURSIVE addAll(_, _, _, _)
\* the constructor's loops: addSourceImage for each path in turn
addAll(images, custom, paths, canRemove) ==
    IF paths = << >> THEN [images |-> images, custom |-> custom]
    ELSE LET r == addSourceImageResult(images, custom, Head(paths), canRemove)
         IN  addAll(r.images, r.custom, Tail(paths), canRemove)

RECURSIVE addAllEvents(_, _, _, _)
\* what the constructor's loops do, call by call
addAllEvents(images, custom, paths, canRemove) ==
    IF paths = << >> THEN << >>
    ELSE LET r == addSourceImageResult(images, custom, Head(paths), canRemove)
         IN  addSourceImageEvents(images, custom, Head(paths), canRemove)
             \o addAllEvents(r.images, r.custom, Tail(paths), canRemove)

defaultPaths ==
    [ k \in 1..Len(defaultSources) |->
        relativeToAbsolutePath(defaultSources[k], QQEM_DATA_PATH) ]

\* the source list and the settings list the constructor leaves, given the
\* customSourceImages it finds in the settings
constructed(custom) ==
    LET d == addAll(<< >>, custom, defaultPaths, FALSE)
    IN  addAll(d.images, d.custom, custom, TRUE)

constructedEvents(custom) ==
    LET d == addAll(<< >>, custom, defaultPaths, FALSE)
    IN  addAllEvents(<< >>, custom, defaultPaths, FALSE)
        \o addAllEvents(d.images, d.custom, custom, TRUE)

----------------------------------------------------------------------------
(* removeSourceImage *)

\* mutant of indexOutOfRange: index = size passes the check
indexOutOfRange_offByOne(index, size) == index < 0 \/ index > size

\* the bounds check of removeSourceImage
indexOutOfRange(index, size) == index < 0 \/ index >= size

\* mutant of persistedIndex: the defaults are not subtracted
persistedIndex_unshifted(index) == index

\* the position removed from the customSourceImages list
persistedIndex(index) == index - Len(defaultSources)

\* removeSourceImage past its bounds check: the reset of the model, then the
\* removeAt and setValue on the settings list
removeSourceImageEvents(modelAborted, settingsAborted) ==
    IF modelAborted THEN << Ev("beginResetModel", "sourceImages") >>
    ELSE resetEvents("sourceImages")
         \o (IF settingsAborted THEN << >> ELSE << Ev("write", "customSourceImages") >>)

removeSourceImage(index) ==
    IF indexOutOfRange(index, Len(sourceImages)) THEN
        /\ UNCHANGED << running, sourceImages, customSourceImages >>
        /\ last' = [ NoOp EXCEPT !.op = "removeSourceImage", !.index = index,
                                 !.ret = "false" ]
        /\ events' = << >>
    ELSE
        \E m \in removeAtOutcomes(sourceImages, index) :
        \E c \in removeAtOutcomes(customSourceImages, persistedIndex(index)) :
            /\ sourceImages' = m.list
            /\ customSourceImages' = IF m.aborted \/ c.aborted
                                     THEN customSourceImages ELSE c.list
            /\ running' = (~m.aborted /\ ~c.aborted)
            /\ last' = [ NoOp EXCEPT !.op = "removeSourceImage", !.index = index,
                                     !.ret = IF m.aborted \/ c.aborted
                                             THEN "aborted" ELSE "true" ]
            /\ events' = removeSourceImageEvents(m.aborted, c.aborted)

----------------------------------------------------------------------------
(* The recentProjects array of the settings *)

EmptySlot == [name |-> "", file |-> ""]

SlotIndexes == 0..(max_items - 1)

RECURSIVE readRecentProjects(_, _, _, _, _)
\* the read loop of updateRecentProjectsModel from index i on: acc.list is
\* recentProjectsList, acc.index is projectListIndex
readRecentProjects(slots, size, projectFile, i, acc) ==
    IF i >= size \/ i >= max_items THEN acc
    ELSE LET d == slots[i]
         IN  IF d.name # "" /\ d.file # ""
             THEN LET l == Append(acc.list, d)
                  IN  readRecentProjects(slots, size, projectFile, i + 1,
                          [ list  |-> l,
                            index |-> IF d.file = projectFile
                                      THEN Len(l) - 1 ELSE acc.index ])
             ELSE readRecentProjects(slots, size, projectFile, i + 1, acc)

\* mutant of updatedList: a new entry is appended instead of prepended
updatedList_append(list, projectListIndex, projectName, projectFile) ==
    IF projectListIndex = -1
    THEN list \o << [name |-> projectName, file |-> projectFile] >>
    ELSE IF projectListIndex > 0
         THEN MoveToFront(list, projectListIndex)
         ELSE list

\* recentProjectsList after "add it first" / "move it on top"
updatedList(list, projectListIndex, projectName, projectFile) ==
    IF projectListIndex = -1
    THEN << [name |-> projectName, file |-> projectFile] >> \o list
    ELSE IF projectListIndex > 0
         THEN MoveToFront(list, projectListIndex)
         ELSE list

\* mutant of truncated: the list is never shortened
truncated_noDrop(list) == list

\* recentProjectsList after the max_items check
truncated(list) == IF Len(list) > max_items THEN RemoveLast(list) ELSE list

\* the keys after the write loop: entry i of the list at array index i, the
\* keys of higher indexes left as they were
writeArray(slots, list) ==
    [ i \in DOMAIN slots |-> IF i < Len(list) THEN list[i + 1] ELSE slots[i] ]

\* the size key endArray() writes after a beginWriteArray() without a size:
\* the highest index set plus one, 0 when none was set
writtenSize(list) == Len(list)

\* mutant of alreadyFirst: the early return is never taken
alreadyFirst_never(list, projectFile) == FALSE

\* the entry the "nothing to update" test of updateRecentProjectsModel looks at
alreadyFirst(list, projectFile) ==
    projectFile # "" /\ list # << >> /\ list[1].file = projectFile

\* mutant of entryGiven: a file alone counts as an entry
entryGiven_fileOnly(projectName, projectFile) == projectFile # ""

\* whether an entry was given
entryGiven(projectName, projectFile) == projectName # "" /\ projectFile # ""

UpdateLabel(projectName, projectFile, path) ==
    [ NoOp EXCEPT !.op = "updateRecentProjects", !.name = projectName,
                  !.file = projectFile, !.path = path ]

\* updateRecentProjectsModel past its early return: the array is written when
\* an entry is given, then the model is reset to the list
updateRecentProjectsEvents(given) ==
    (IF given THEN << Ev("write", "recentProjects") >> ELSE << >>)
    \o resetEvents("recentProjects")

updateRecentProjectsModel(projectName, projectFile) ==
    /\ UNCHANGED running
    /\ IF alreadyFirst(recentProjects, projectFile) THEN
           /\ UNCHANGED << recentProjects, recentSlots, recentSize >>
           /\ last' = UpdateLabel(projectName, projectFile, "first")
           /\ events' = << >>
       ELSE
           LET r == readRecentProjects(recentSlots, recentSize, projectFile, 0,
                                       [list |-> << >>, index |-> -1])
           IN  IF entryGiven(projectName, projectFile) THEN
                   LET u == updatedList(r.list, r.index, projectName, projectFile)
                       t == truncated(u)
                   IN  /\ recentSlots' = writeArray(recentSlots, t)
                       /\ recentSize' = writtenSize(t)
                       /\ recentProjects' = t
                       /\ last' = UpdateLabel(projectName, projectFile,
                              IF r.index = -1
                              THEN (IF Len(u) > max_items THEN "prepend-drop" ELSE "prepend")
                              ELSE IF r.index > 0 THEN "move" ELSE "keep")
                       /\ events' = updateRecentProjectsEvents(TRUE)
               ELSE
                   /\ UNCHANGED << recentSlots, recentSize >>
                   /\ recentProjects' = r.list
                   /\ last' = UpdateLabel(projectName, projectFile, "load")
                   /\ events' = updateRecentProjectsEvents(FALSE)

\* mutant of clearRecentProjectsModel: only the in-memory list is cleared
clearRecentProjectsModel_listOnly ==
    /\ recentProjects' = << >>
    /\ UNCHANGED << running, recentSlots, recentSize >>
    /\ last' = [ NoOp EXCEPT !.op = "clearRecentProjects" ]
    /\ events' = resetEvents("recentProjects")

clearRecentProjectsModel ==
    /\ recentSize' = writtenSize(<< >>)
    /\ recentProjects' = << >>
    /\ UNCHANGED << running, recentSlots >>
    /\ last' = [ NoOp EXCEPT !.op = "clearRecentProjects" ]
    /\ events' = << Ev("write", "recentProjects") >> \o resetEvents("recentProjects")

\* the index at which the scan of removeRecentProjectsModel stops: the first
\* array index whose projectFile key equals projectFile, -1 when there is none
firstMatch(slots, size, projectFile) ==
    LET S == { i \in 0..(size - 1) : slots[i].file = projectFile }
    IN  IF S = {} THEN -1 ELSE CHOOSE i \in S : \A j \in S : i <= j

\* removeRecentProjectsModel on a match: the two keys are removed from the
\* array, then the model is reset around the removeAt
removeRecentProjectsEvents(aborted) ==
    << Ev("write", "recentProjects") >>
    \o (IF aborted THEN << Ev("beginResetModel", "recentProjects") >>
        ELSE resetEvents("recentProjects"))

removeRecentProjectsModel(projectFile) ==
    LET i == firstMatch(recentSlots, recentSize, projectFile)
    IN  IF i = -1 THEN
            /\ UNCHANGED << running, recentProjects, recentSlots, recentSize >>
            /\ last' = [ NoOp EXCEPT !.op = "removeRecentProject",
                                     !.file = projectFile, !.path = "nomatch" ]
            /\ events' = << >>
        ELSE
            \E o \in removeAtOutcomes(recentProjects, i) :
                /\ recentSlots' = [ recentSlots EXCEPT ![i] = EmptySlot ]
                /\ UNCHANGED recentSize
                /\ recentProjects' = o.list
                /\ running' = ~o.aborted
                /\ last' = [ NoOp EXCEPT !.op = "removeRecentProject",
                                         !.file = projectFile, !.index = i,
                                         !.path = "match",
                                         !.ret = IF o.aborted THEN "aborted" ELSE "void" ]
                /\ events' = removeRecentProjectsEvents(o.aborted)

----------------------------------------------------------------------------
(* The selected image of the source list *)

\* m_currentIndex of a new ImagesModel
initialIndex == 0

setImageIndex(index) ==
    /\ last' = [ NoOp EXCEPT !.op = "setImageIndex", !.index = index ]
    /\ UNCHANGED running
    /\ IF currentIndex = index THEN
           /\ UNCHANGED currentIndex
           /\ events' = << >>
       ELSE
           /\ currentIndex' = index
           /\ events' = << Ev("signal", "currentImageFileChanged") >>

\* what a read outside the list may yield in a build without assertions
GarbageFiles == { "", "\\garbage" }

\* QList::at(i).file as the build may execute it.  In range it is the file of
\* the element.  Out of range the precondition (Q_ASSERT_X "index out of
\* range") is broken: a build with assertions aborts, a build without them
\* reads memory outside the list.
atOutcomes(list, i) ==
    IF 0 <= i /\ i < Len(list)
    THEN { [aborted |-> FALSE, file |-> list[i + 1].file] }
    ELSE { [aborted |-> TRUE, file |-> ""] }
         \cup { [aborted |-> FALSE, file |-> g] : g \in GarbageFiles }

\* the check of currentImageFile: m_modelList.size() > m_currentIndex
sizeAbove(list, index) == Len(list) > index

\* ImagesModel::currentImageFile(): accessed tells whether at() was called
currentImageFileOutcomes(list, index) ==
    IF sizeAbove(list, index)
    THEN { [aborted |-> o.aborted, accessed |-> TRUE, file |-> o.file] :
             o \in atOutcomes(list, index) }
    ELSE { [aborted |-> FALSE, accessed |-> FALSE, file |-> ""] }

currentImageFile ==
    \E o \in currentImageFileOutcomes(sourceImages, currentIndex) :
        /\ running' = ~o.aborted
        /\ UNCHANGED currentIndex
        /\ events' = << >>
        /\ last' = [ NoOp EXCEPT !.op = "currentImageFile", !.index = currentIndex,
                                 !.file = o.file,
                                 !.path = IF o.accessed THEN "at" ELSE "empty",
                                 !.ret = IF o.aborted THEN "aborted" ELSE "value" ]

----------------------------------------------------------------------------
(* The scalar preferences *)

\* a key of the settings: absent until the first setValue
Absent(v) == [ present |-> FALSE, value |-> v ]
Stored(v) == [ present |-> TRUE, value |-> v ]

\* QSettings::value(key, defaultValue)
settingsValue(key, defaultValue) == IF key.present THEN key.value ELSE defaultValue

useLegacyShaders(p) == settingsValue(p.useLegacyShaders, FALSE)

codeFontFile(p) == settingsValue(p.codeFontFile, DEFAULT_CODE_FONT_FILE)

codeFontSize(p) == settingsValue(p.codeFontSize, DEFAULT_CODE_FONT_SIZE)

bakeEvents ==
    << Ev("write", "useLegacyShaders"), Ev("signal", "useLegacyShadersChanged"),
       Ev("call", "updateBakedShaderVersions"), Ev("call", "doBakeShaders") >>

\* mutant of setUseLegacyShadersResult: no early return on an equal value
setUseLegacyShadersResult_always(p, legacyShaders) ==
    [ prefs  |-> [ p EXCEPT !.useLegacyShaders = Stored(legacyShaders) ],
      events |-> bakeEvents ]

\* setUseLegacyShaders on given settings: the settings after and what it did
setUseLegacyShadersResult(p, legacyShaders) ==
    IF useLegacyShaders(p) = legacyShaders THEN [ prefs |-> p, events |-> << >> ]
    ELSE [ prefs  |-> [ p EXCEPT !.useLegacyShaders = Stored(legacyShaders) ],
           events |-> bakeEvents ]

\* mutant of setCodeFontFileResult: no early return on an equal value
setCodeFontFileResult_always(p, font) ==
    [ prefs  |-> [ p EXCEPT !.codeFontFile = Stored(font) ],
      events |-> << Ev("write", "codeFontFile"), Ev("signal", "codeFontFileChanged") >> ]

setCodeFontFileResult(p, font) ==
    IF codeFontFile(p) = font THEN [ prefs |-> p, events |-> << >> ]
    ELSE [ prefs  |-> [ p EXCEPT !.codeFontFile = Stored(font) ],
           events |-> << Ev("write", "codeFontFile"),
                         Ev("signal", "codeFontFileChanged") >> ]

setCodeFontSizeResult(p, size) ==
    IF codeFontSize(p) = size THEN [ prefs |-> p, events |-> << >> ]
    ELSE [ prefs  |-> [ p EXCEPT !.codeFontSize = Stored(size) ],
           events |-> << Ev("write", "codeFontSize"),
                         Ev("signal", "codeFontSizeChanged") >> ]

\* resetCodeFont: setCodeFontFile, then setCodeFontSize, with the defaults
resetCodeFontResult(p) ==
    LET f == setCodeFontFileResult(p, DEFAULT_CODE_FONT_FILE)
        z == setCodeFontSizeResult(f.prefs, DEFAULT_CODE_FONT_SIZE)
    IN  [ prefs |-> z.prefs, events |-> f.events \o z.events ]

setUseLegacyShaders(legacyShaders) ==
    LET r == setUseLegacyShadersResult(prefs, legacyShaders)
    IN  /\ prefs' = r.prefs
        /\ events' = r.events
        /\ last' = [ NoOp EXCEPT !.op = "setUseLegacyShaders", !.flag = legacyShaders ]

setCodeFontFile(font) ==
    LET r == setCodeFontFileResult(prefs, font)
    IN  /\ prefs' = r.prefs
        /\ events' = r.events
        /\ last' = [ NoOp EXCEPT !.op = "setCodeFontFile", !.file = font ]

setCodeFontSize(size) ==
    LET r == setCodeFontSizeResult(prefs, size)
    IN  /\ prefs' = r.prefs
        /\ events' = r.events
        /\ last' = [ NoOp EXCEPT !.op = "setCodeFontSize", !.size = size ]

resetCodeFont ==
    LET r == resetCodeFontResult(prefs)
    IN  /\ prefs' = r.prefs
        /\ events' = r.events
        /\ last' = [ NoOp EXCEPT !.op = "resetCodeFont" ]

----------------------------------------------------------------------------
(* Observers: history the properties refer to; no operation reads them *)

RtIdle == [ phase |-> "idle", images |-> << >>, custom |-> << >>,
            addRet |-> "void", removeRet |-> "void" ]

FilesOf(list) == [ k \in 1..Len(list) |-> list[k].file ]

\* the source list is the defaults followed by the persisted custom entries
Aligned(images, custom) == FilesOf(images) = defaultPaths \o custom

\* an add of a new non-empty removable path to an aligned list starts a round trip
RtAfterAdd(sourceImage, canRemove, ret) ==
    IF /\ canRemove
       /\ sourceImage # ""
       /\ \A k \in 1..Len(sourceImages) : sourceImages[k].file # sourceImage
       /\ Aligned(sourceImages, customSourceImages)
    THEN [ phase |-> "added", images |-> sourceImages, custom |-> customSourceImages,
           addRet |-> ret, removeRet |-> "void" ]
    ELSE RtIdle

\* the removal of the last index right after it completes the round trip
RtAfterRemove(index, ret) ==
    IF rt.phase = "added" /\ index = Len(sourceImages) - 1
    THEN [ rt EXCEPT !.phase = "removed", !.removeRet = ret ]
    ELSE RtIdle

ObsInit == [ touchedFile |-> "", touchedEntry |-> "", repeated |-> FALSE,
             cleared |-> FALSE, before |-> {}, passed |-> {} ]

\* the call repeats the call before it: the same operation with the same arguments
Repeats(projectName, projectFile) ==
    /\ last.op = "updateRecentProjects"
    /\ last.name = projectName
    /\ last.file = projectFile

ObsAfterUpdate(projectName, projectFile, repeated) ==
    [ obs EXCEPT
        !.repeated = repeated,
        !.touchedFile  = IF projectFile # "" THEN projectFile ELSE @,
        !.touchedEntry = IF projectName # "" /\ projectFile # "" THEN projectFile ELSE @,
        !.passed       = IF obs.cleared THEN @ \cup {projectFile} ELSE @ ]

\* the files of every entry in the list or under a key of the array
ExistingFiles ==
    ({ recentProjects[k].file : k \in 1..Len(recentProjects) }
        \cup { recentSlots[i].file : i \in SlotIndexes }) \ {""}

ObsAfterClear ==
    [ obs EXCEPT !.cleared = TRUE, !.before = ExistingFiles, !.passed = {} ]

----------------------------------------------------------------------------
(* Initial state: the constructor on a store without keys *)

Init ==
    /\ running = TRUE
    /\ sourceImages = constructed(<< >>).images
    /\ customSourceImages = constructed(<< >>).custom
    /\ recentProjects = << >>
    /\ recentSlots = [ i \in SlotIndexes |-> EmptySlot ]
    /\ recentSize = 0
    /\ last = [ NoOp EXCEPT !.op = "construct" ]
    /\ nOps = 0
    /\ rt = RtIdle
    /\ obs = ObsInit
    /\ prefs = [ useLegacyShaders |-> Absent(FALSE), codeFontFile |-> Absent(""),
                 codeFontSize |-> Absent(0) ]
    /\ currentIndex = initialIndex
    /\ events = constructedEvents(<< >>)

----------------------------------------------------------------------------
(* Steps: one call of an operation by the application *)

AddPaths == { "", defaultPaths[1] } \cup CustomPaths

AddSourceImageStep ==
    \E sourceImage \in AddPaths, canRemove \in BOOLEAN :
        /\ running
        /\ nOps < MaxSourceOps
        /\ addSourceImage(sourceImage, canRemove)
        /\ rt' = RtAfterAdd(sourceImage, canRemove, last'.ret)
        /\ nOps' = nOps + 1
        /\ UNCHANGED << recentProjects, recentSlots, recentSize, obs, prefs,
                        currentIndex >>

RemoveSourceImageStep ==
    \E index \in -1..Len(sourceImages) :
        /\ running
        /\ nOps < MaxSourceOps
        /\ removeSourceImage(index)
        /\ rt' = RtAfterRemove(index, last'.ret)
        /\ nOps' = nOps + 1
        /\ UNCHANGED << recentProjects, recentSlots, recentSize, obs, prefs,
                        currentIndex >>

\* the application is started again: the constructor runs on the store as it is
ConstructStep ==
    /\ nOps < MaxSourceOps
    /\ running' = TRUE
    /\ sourceImages' = constructed(customSourceImages).images
    /\ customSourceImages' = constructed(customSourceImages).custom
    /\ recentProjects' = << >>
    /\ last' = [ NoOp EXCEPT !.op = "construct" ]
    /\ rt' = RtIdle
    /\ obs' = ObsInit
    /\ nOps' = nOps + 1
    /\ currentIndex' = initialIndex
    /\ events' = constructedEvents(customSourceImages)
    /\ UNCHANGED << recentSlots, recentSize, prefs >>

UpdateRecentProjectsStep ==
    \E p \in ProjectInputs(NumRecentFiles) :
        /\ running
        /\ nOps < MaxRecentOps
        /\ updateRecentProjectsModel(p.name, p.file)
        /\ obs' = ObsAfterUpdate(p.name, p.file, Repeats(p.name, p.file))
        /\ nOps' = nOps + 1
        /\ UNCHANGED << sourceImages, customSourceImages, rt, prefs, currentIndex >>

RemoveRecentProjectStep ==
    \E projectFile \in ProjectFiles(NumRecentFiles) \cup {""} :
        /\ running
        /\ nOps < MaxRecentOps
        /\ removeRecentProjectsModel(projectFile)
        /\ obs' = [ obs EXCEPT !.repeated = FALSE ]
        /\ nOps' = nOps + 1
        /\ UNCHANGED << sourceImages, customSourceImages, rt, prefs, currentIndex >>

ClearRecentProjectsStep ==
    /\ running
    /\ nOps < MaxRecentOps
    /\ clearRecentProjectsModel
    /\ obs' = [ ObsAfterClear EXCEPT !.repeated = FALSE ]
    /\ nOps' = nOps + 1
    /\ UNCHANGED << sourceImages, customSourceImages, rt, prefs, currentIndex >>

\* updateRecentProjectsModel alone, on the larger set of files, without a
\* bound on the number of calls
UpdateOnlyStep ==
    \E p \in UpdateInputs(NumUpdateFiles) :
        /\ running
        /\ updateRecentProjectsModel(p.name, p.file)
        /\ obs' = ObsAfterUpdate(p.name, p.file, FALSE)
        /\ UNCHANGED << sourceImages, customSourceImages, rt, nOps, prefs,
                        currentIndex >>

\* The five list operations together, on few inputs: an empty and a custom
\* path; the indexes below the list, of a default, of the last entry and past
\* the list; two projects and a call without an entry.  The observers rt and
\* obs are not kept in these steps.
NotifyAddSourceImageStep ==
    \E sourceImage \in { "", CustomPathNames[1] }, canRemove \in BOOLEAN :
        /\ running
        /\ nOps < MaxNotifyOps
        /\ addSourceImage(sourceImage, canRemove)
        /\ nOps' = nOps + 1
        /\ UNCHANGED << recentProjects, recentSlots, recentSize, rt, obs, prefs,
                        currentIndex >>

NotifyRemoveSourceImageStep ==
    \E index \in { -1, 0, Len(sourceImages) - 1, Len(sourceImages) } :
        /\ running
        /\ nOps < MaxNotifyOps
        /\ removeSourceImage(index)
        /\ nOps' = nOps + 1
        /\ UNCHANGED << recentProjects, recentSlots, recentSize, rt, obs, prefs,
                        currentIndex >>

NotifyUpdateRecentProjectsStep ==
    \E p \in NamedProjects(2) \cup { [name |-> "", file |-> ""] } :
        /\ running
        /\ nOps < MaxNotifyOps
        /\ updateRecentProjectsModel(p.name, p.file)
        /\ nOps' = nOps + 1
        /\ UNCHANGED << sourceImages, customSourceImages, rt, obs, prefs,
                        currentIndex >>

NotifyRemoveRecentProjectStep ==
    \E projectFile \in ProjectFiles(2) :
        /\ running
        /\ nOps < MaxNotifyOps
        /\ removeRecentProjectsModel(projectFile)
        /\ nOps' = nOps + 1
        /\ UNCHANGED << sourceImages, customSourceImages, rt, obs, prefs,
                        currentIndex >>

NotifyClearRecentProjectsStep ==
    /\ running
    /\ nOps < MaxNotifyOps
    /\ clearRecentProjectsModel
    /\ nOps' = nOps + 1
    /\ UNCHANGED << sourceImages, customSourceImages, rt, obs, prefs, currentIndex >>

SetImageIndexStep ==
    \E index \in -1..Len(sourceImages) :
        /\ running
        /\ nOps < MaxSourceOps
        /\ setImageIndex(index)
        /\ nOps' = nOps + 1
        /\ UNCHANGED << sourceImages, customSourceImages, recentProjects,
                        recentSlots, recentSize, rt, obs, prefs >>

\* a read of the selected file; it is no operation of the bounded count
CurrentImageFileStep ==
    /\ running
    /\ currentImageFile
    /\ UNCHANGED << sourceImages, customSourceImages, recentProjects,
                    recentSlots, recentSize, rt, obs, prefs, nOps >>

FontFiles == { DEFAULT_CODE_FONT_FILE, "fonts/Other.ttf", "" }

FontSizes == { DEFAULT_CODE_FONT_SIZE, 10, 0 }

SetUseLegacyShadersStep ==
    \E legacyShaders \in BOOLEAN :
        /\ running
        /\ setUseLegacyShaders(legacyShaders)
        /\ UNCHANGED << running, sourceImages, customSourceImages, recentProjects,
                        recentSlots, recentSize, rt, obs, currentIndex, nOps >>

SetCodeFontFileStep ==
    \E font \in FontFiles :
        /\ running
        /\ setCodeFontFile(font)
        /\ UNCHANGED << running, sourceImages, customSourceImages, recentProjects,
                        recentSlots, recentSize, rt, obs, currentIndex, nOps >>

SetCodeFontSizeStep ==
    \E size \in FontSizes :
        /\ running
        /\ setCodeFontSize(size)
        /\ UNCHANGED << running, sourceImages, customSourceImages, recentProjects,
                        recentSlots, recentSize, rt, obs, currentIndex, nOps >>

ResetCodeFontStep ==
    /\ running
    /\ resetCodeFont
    /\ UNCHANGED << running, sourceImages, customSourceImages, recentProjects,
                    recentSlots, recentSize, rt, obs, currentIndex, nOps >>

----------------------------------------------------------------------------
(* Specifications *)

NextSource == AddSourceImageStep \/ RemoveSourceImageStep \/ ConstructStep
SpecSource == Init /\ [][NextSource]_vars

NextRecent == UpdateRecentProjectsStep \/ RemoveRecentProjectStep \/ ClearRecentProjectsStep
SpecRecent == Init /\ [][NextRecent]_vars

NextUpdate == UpdateOnlyStep
SpecUpdate == Init /\ [][NextUpdate]_vars

NextNotify ==
    \/ NotifyAddSourceImageStep
    \/ NotifyRemoveSourceImageStep
    \/ NotifyUpdateRecentProjectsStep
    \/ NotifyRemoveRecentProjectStep
    \/ NotifyClearRecentProjectsStep
SpecNotify == Init /\ [][NextNotify]_vars

NextSelect ==
    \/ AddSourceImageStep
    \/ RemoveSourceImageStep
    \/ SetImageIndexStep
    \/ CurrentImageFileStep
SpecSelect == Init /\ [][NextSelect]_vars

NextPrefs ==
    \/ SetUseLegacyShadersStep
    \/ SetCodeFontFileStep
    \/ SetCodeFontSizeStep
    \/ ResetCodeFontStep
SpecPrefs == Init /\ [][NextPrefs]_vars

Next ==
    \/ AddSourceImageStep
    \/ RemoveSourceImageStep
    \/ ConstructStep
    \/ UpdateRecentProjectsStep
    \/ RemoveRecentProjectStep
    \/ ClearRecentProjectsStep
    \/ SetImageIndexStep
    \/ CurrentImageFileStep
    \/ SetUseLegacyShadersStep
    \/ SetCodeFontFileStep
    \/ SetCodeFontSizeStep
    \/ ResetCodeFontStep
Spec == Init /\ [][Next]_vars

----------------------------------------------------------------------------
(* Properties *)

NoDuplicateFiles(list) ==
    \A i, j \in 1..Len(list) : i # j => list[i].file # list[j].file

\* the array as beginReadArray() presents it: the entries below the size key
PersistedRecent == [ k \in 1..recentSize |-> recentSlots[k - 1] ]

IsUpdate(l) == l.op = "updateRecentProjects"

\* C1: after any sequence of updateRecentProjects calls from an empty store
\* and an empty list, the in-memory recent list has at most 6 entries and no
\* two entries have the same file.
C1_SizeAndNoDuplicates ==
    /\ Len(recentProjects) <= 6
    /\ NoDuplicateFiles(recentProjects)

\* C1 witness: a prepend to a full list has dropped the last entry.
C1_Witness ==
    /\ last.path = "prepend-drop"
    /\ Len(recentProjects) = 6

\* C2 as stated: the file of the most recent call with a non-empty file is
\* the file of the entry at index 0.
C2_TouchedFileFirst ==
    obs.touchedFile # "" =>
        /\ recentProjects # << >>
        /\ recentProjects[1].file = obs.touchedFile

\* C2 amended: the file of the most recent call with a non-empty name and a
\* non-empty file is the file of the entry at index 0.
C2_TouchedEntryFirst ==
    obs.touchedEntry # "" =>
        /\ recentProjects # << >>
        /\ recentProjects[1].file = obs.touchedEntry

\* C2 witness: after an entry was given, a call with an empty name and another
\* non-empty file has run.
C2_Witness ==
    /\ obs.touchedEntry # ""
    /\ IsUpdate(last) /\ last.name = "" /\ last.file # ""
    /\ last.file # obs.touchedEntry
    /\ Len(recentProjects) >= 2

\* C3 as stated, for a non-empty file that an in-memory entry has and whose
\* array index lies within the in-memory list: removeRecentProject(file)
\* removes the first persisted entry with that file and the in-memory entry
\* with that file, every other in-memory entry staying in order; without a
\* persisted match nothing changes.
C3_RemovesCorrespondingEntry ==
    [][ (last'.op = "removeRecentProject" /\ last'.file # "") =>
          LET f == last'.file
              M == { i \in 0..(recentSize - 1) : recentSlots[i].file = f }
          IN  IF M = {} THEN
                  UNCHANGED << recentProjects, recentSlots, recentSize >>
              ELSE
                  LET i == CHOOSE x \in M : \A y \in M : x <= y
                  IN  (/\ i < Len(recentProjects)
                       /\ \E k \in 1..Len(recentProjects) : recentProjects[k].file = f)
                      =>
                      /\ recentSlots' = [ recentSlots EXCEPT ![i] = EmptySlot ]
                      /\ recentProjects' =
                            SelectSeq(recentProjects, LAMBDA e : e.file # f)
      ]_vars

\* C4 as stated, where index - 4 is a position of the persisted list: for a
\* valid index removeSourceImage returns true, removes the in-memory entry at
\* index and removes from the persisted list exactly the path of that entry.
C4_RemovesPersistedPathOfEntry ==
    [][ ( /\ last'.op = "removeSourceImage"
          /\ 0 <= last'.index /\ last'.index < Len(sourceImages)
          /\ 0 <= last'.index - 4 /\ last'.index - 4 < Len(customSourceImages) )
        =>
          LET removed == sourceImages[last'.index + 1]
          IN  /\ last'.ret = "true"
              /\ Len(sourceImages') = Len(sourceImages) - 1
              /\ \A k \in 1..Len(sourceImages') :
                    sourceImages'[k] = IF k <= last'.index THEN sourceImages[k]
                                       ELSE sourceImages[k + 1]
              /\ Contains(customSourceImages, removed.file)
              /\ customSourceImages' =
                    SelectSeq(customSourceImages, LAMBDA q : q # removed.file)
      ]_vars

\* C5: addSourceImage(path, canRemove) returns false and changes neither list
\* when path is empty or is the file of an entry of the source list; otherwise
\* it returns true and appends exactly one entry, with that file, at the end.
C5_AddSourceImage ==
    [][ last'.op = "addSourceImage" =>
          LET path == last'.file
              n == Len(sourceImages)
          IN  IF path = "" \/ \E k \in 1..n : sourceImages[k].file = path
              THEN /\ last'.ret = "false"
                   /\ UNCHANGED << sourceImages, customSourceImages >>
              ELSE /\ last'.ret = "true"
                   /\ Len(sourceImages') = n + 1
                   /\ SubSeq(sourceImages', 1, n) = sourceImages
                   /\ sourceImages'[n + 1].file = path
                   /\ sourceImages'[n + 1].canRemove = last'.canRemove
      ]_vars

\* C5 witness: an add of a path already in the list was refused.
C5_Witness ==
    /\ last.op = "addSourceImage"
    /\ last.file # ""
    /\ last.ret = "false"
    /\ \E k \in 1..Len(sourceImages) :
          sourceImages[k].file = last.file /\ k < Len(sourceImages)

\* C6: removeSourceImage(index) with index < 0 or index >= size returns false
\* and changes neither the source list nor the persisted list.
C6_RemoveOutOfRange ==
    [][ ( /\ last'.op = "removeSourceImage"
          /\ (last'.index < 0 \/ last'.index >= Len(sourceImages)) )
        =>
          /\ last'.ret = "false"
          /\ UNCHANGED << sourceImages, customSourceImages >>
      ]_vars

\* C6 witness: a removal at index = size was refused, custom entries present.
C6_Witness ==
    /\ last.op = "removeSourceImage"
    /\ last.index = Len(sourceImages)
    /\ last.ret = "false"
    /\ customSourceImages # << >>

\* C7: from a list that is the defaults followed by the persisted custom
\* entries, addSourceImage(p, true) for a new non-empty p followed by
\* removeSourceImage(size - 1) both return true and restore both lists.
C7_RoundTrip ==
    rt.phase = "removed" =>
        /\ rt.addRet = "true"
        /\ rt.removeRet = "true"
        /\ sourceImages = rt.images
        /\ customSourceImages = rt.custom

\* C7 witness: a round trip was completed on a list with a custom entry.
C7_Witness ==
    /\ rt.phase = "removed"
    /\ rt.custom # << >>

C9_Idempotent ==
    [][ IsUpdate(last') =>
          /\ (obs'.repeated /\ last'.name # "" /\ last'.file # "")
                => UNCHANGED << recentProjects, recentSlots, recentSize >>
          /\ ( /\ last'.file # ""
               /\ recentProjects # << >>
               /\ recentProjects[1].file = last'.file )
                => UNCHANGED << recentProjects, recentSlots, recentSize >>
      ]_vars

\* C9 witness: a call with a non-empty name and file was repeated right away,
\* on a list whose array has lost an entry to removeRecentProject.
C9_Witness ==
    /\ obs.repeated
    /\ last.name # "" /\ last.file # ""
    /\ Len(recentProjects) < recentSize

\* C10: after clearRecentProjects the persisted list and the in-memory list
\* are empty, and a file that an entry had before the clear is in neither of
\* them later unless it was passed to a later updateRecentProjects call.
C10_ClearedStaysClear ==
    /\ last.op = "clearRecentProjects" =>
          recentProjects = << >> /\ PersistedRecent = << >>
    /\ obs.cleared =>
          \A f \in obs.before \ obs.passed :
              /\ \A k \in 1..Len(recentProjects) : recentProjects[k].file # f
              /\ \A k \in 1..Len(PersistedRecent) : PersistedRecent[k].file # f

\* C10 witness: after a clear an update has written the array while a key of
\* an entry from before the clear, whose file was not passed since, is still
\* in the store above the size.
C10_Witness ==
    /\ obs.cleared
    /\ recentProjects # << >>
    /\ \E i \in SlotIndexes :
          /\ i >= recentSize
          /\ recentSlots[i].file \in obs.before \ obs.passed

----------------------------------------------------------------------------
(* Properties of what an operation did, read from events *)

\* how many times e was done
Count(seq, e) == Cardinality({ k \in DOMAIN seq : seq[k] = e })

\* the position at which e was first done, 0 when it was not
Pos(seq, e) ==
    LET S == { k \in DOMAIN seq : seq[k] = e }
    IN  IF S = {} THEN 0 ELSE CHOOSE k \in S : \A j \in S : k <= j

\* C11: a call setUseLegacyShaders(v) with v different from the value
\* useLegacyShaders() reads writes v to the settings, emits
\* useLegacyShadersChanged once and calls updateBakedShaderVersions and then
\* doBakeShaders on the effect manager, each exactly once; with v equal to the
\* value read, the settings are left alone and none of the four happens.
C11_SetUseLegacyShaders ==
    [][ last'.op = "setUseLegacyShaders" =>
          IF last'.flag # useLegacyShaders(prefs) THEN
              /\ prefs'.useLegacyShaders = Stored(last'.flag)
              /\ useLegacyShaders(prefs') = last'.flag
              /\ Count(events', Ev("write", "useLegacyShaders")) = 1
              /\ Count(events', Ev("signal", "useLegacyShadersChanged")) = 1
              /\ Count(events', Ev("call", "updateBakedShaderVersions")) = 1
              /\ Count(events', Ev("call", "doBakeShaders")) = 1
              /\ Pos(events', Ev("call", "updateBakedShaderVersions"))
                     < Pos(events', Ev("call", "doBakeShaders"))
          ELSE
              /\ prefs' = prefs
              /\ Count(events', Ev("write", "useLegacyShaders")) = 0
              /\ Count(events', Ev("signal", "useLegacyShadersChanged")) = 0
              /\ Count(events', Ev("call", "updateBakedShaderVersions")) = 0
              /\ Count(events', Ev("call", "doBakeShaders")) = 0 ]_vars

\* the flag was switched back to false: the call wrote and rebaked
C11_Witness ==
    /\ last.op = "setUseLegacyShaders"
    /\ last.flag = FALSE
    /\ prefs.useLegacyShaders = Stored(FALSE)
    /\ Len(events) = 4

\* C12: resetCodeFont() leaves codeFontFile() and codeFontSize() at the
\* compiled-in defaults, whatever setCodeFontFile and setCodeFontSize stored
\* before, and it emits the change signal of a field only if the value of that
\* field differed from its default before the call.
C12_ResetCodeFont ==
    [][ last'.op = "resetCodeFont" =>
          /\ codeFontFile(prefs') = DEFAULT_CODE_FONT_FILE
          /\ codeFontSize(prefs') = DEFAULT_CODE_FONT_SIZE
          /\ Count(events', Ev("signal", "codeFontFileChanged")) > 0
                 => codeFontFile(prefs) # DEFAULT_CODE_FONT_FILE
          /\ Count(events', Ev("signal", "codeFontSizeChanged")) > 0
                 => codeFontSize(prefs) # DEFAULT_CODE_FONT_SIZE ]_vars

\* a reset that found another font file but the default size, which an
\* earlier call had stored
C12_Witness ==
    /\ last.op = "resetCodeFont"
    /\ prefs.codeFontSize = Stored(DEFAULT_CODE_FONT_SIZE)
    /\ Count(events, Ev("signal", "codeFontFileChanged")) = 1
    /\ Count(events, Ev("signal", "codeFontSizeChanged")) = 0

\* C13: currentImageFile() returns the file of the entry at the selected index
\* when 0 <= index < size of the list, and for every other selected index it
\* returns the empty string without reading the list, whatever index
\* setImageIndex was given and however the list was changed.
C13_SelectedFile ==
    last.op = "currentImageFile" =>
        IF 0 <= last.index /\ last.index < Len(sourceImages)
        THEN /\ last.ret = "value"
             /\ last.file = sourceImages[last.index + 1].file
        ELSE /\ last.ret = "value"
             /\ last.file = ""
             /\ last.path = "empty"

\* the entries of a sequence that have a name and a file
WellFormed(seq) == SelectSeq(seq, LAMBDA e : e.name # "" /\ e.file # "")

\* C14: after every completed updateRecentProjectsModel,
\* removeRecentProjectsModel and clearRecentProjectsModel call the in-memory
\* recent list equals, entry by entry and in order, the well-formed entries
\* (name and file not empty) of the persisted recentProjects array.
C14_RecentMirror ==
    ( /\ last.op \in { "updateRecentProjects", "removeRecentProject",
                       "clearRecentProjects" }
      /\ last.ret # "aborted" )
        => recentProjects = WellFormed(PersistedRecent)

\* the files of the entries of the source list that can be removed
RemovableFiles(images) == FilesOf(SelectSeq(images, LAMBDA d : d.canRemove))

\* C15: after the constructor and after every completed addSourceImage and
\* removeSourceImage call the persisted customSourceImages list equals, in
\* order, the files of the source-list entries with canRemove = true.
C15_SourceMirror ==
    ( /\ last.op \in { "construct", "addSourceImage", "removeSourceImage" }
      /\ last.ret # "aborted" )
        => customSourceImages = RemovableFiles(sourceImages)

\* C16: after the constructor and after every completed addSourceImage and
\* removeSourceImage call the first 4 positions of the source list hold the 4
\* default entries (canRemove = false) in their order, and no default path is
\* in the persisted customSourceImages list.
C16_DefaultsFirst ==
    ( /\ last.op \in { "construct", "addSourceImage", "removeSourceImage" }
      /\ last.ret # "aborted" )
        => /\ Len(sourceImages) >= Len(defaultPaths)
           /\ \A k \in 1..Len(defaultPaths) :
                  /\ sourceImages[k].file = defaultPaths[k]
                  /\ ~sourceImages[k].canRemove
           /\ \A j \in 1..Len(customSourceImages) :
                  \A k \in 1..Len(defaultPaths) : customSourceImages[j] # defaultPaths[k]

\* C19: in every state reached by the constructor followed by addSourceImage
\* and removeSourceImage calls, no two entries of the source list have the same
\* file.
C19_NoDuplicateSources == NoDuplicateFiles(sourceImages)

\* the constructor found a default path in the persisted list and did not add
\* it a second time
C19_Witness ==
    /\ last.op = "construct"
    /\ \E j \in 1..Len(customSourceImages) : customSourceImages[j] = defaultPaths[1]
    /\ Len(sourceImages) = Len(defaultPaths)

\* the entries updateRecentProjectsModel reads: the first max_items entries
\* of the persisted array
ReadSlots == [ k \in 1..Min(recentSize, max_items) |-> recentSlots[k - 1] ]

\* C20: updateRecentProjectsModel(name, file) with an empty name or an empty
\* file, and file not already first in the list, does not write the settings:
\* it only replaces the in-memory list with the well-formed entries of the
\* first 6 entries of the persisted array, in order.
C20_LoadOnly ==
    [][ ( /\ IsUpdate(last')
          /\ last'.name = "" \/ last'.file = ""
          /\ ~alreadyFirst(recentProjects, last'.file) )
        => /\ recentSlots' = recentSlots
           /\ recentSize' = recentSize
           /\ Count(events', Ev("write", "recentProjects")) = 0
           /\ recentProjects' = WellFormed(ReadSlots) ]_vars

\* a call without a name reloaded the list from an array with a hole
C20_Witness ==
    /\ IsUpdate(last)
    /\ last.name = ""
    /\ last.file # ""
    /\ last.path = "load"
    /\ recentProjects # << >>
    /\ Len(recentProjects) < recentSize

ListOps == { "addSourceImage", "removeSourceImage", "updateRecentProjects",
             "clearRecentProjects", "removeRecentProject" }

\* for the model and the settings key of a list: the list was changed, then
\* the key written, then the end of the reset notified
ChangeWriteEnd(seq, model, key) ==
    ( Count(seq, Ev("change", model)) > 0 /\ Count(seq, Ev("write", key)) > 0 )
        => /\ Pos(seq, Ev("change", model)) < Pos(seq, Ev("write", key))
           /\ Pos(seq, Ev("write", key)) < Pos(seq, Ev("endResetModel", model))

\* the end of the reset is notified after the change of the list
ChangeThenEnd(seq, model) ==
    Count(seq, Ev("change", model)) > 0
        => Pos(seq, Ev("change", model)) < Pos(seq, Ev("endResetModel", model))

\* C17 as stated: in addSourceImage, removeSourceImage, updateRecentProjects,
\* clearRecentProjects and removeRecentProject the in-memory list is changed,
\* then the settings are written, and only then is the end of the reset
\* notified, so that no observer is notified while the settings hold the old
\* value.
C17_ChangeWriteNotify ==
    last.op \in ListOps
        => /\ ChangeWriteEnd(events, "sourceImages", "customSourceImages")
           /\ ChangeWriteEnd(events, "recentProjects", "recentProjects")

\* C17 amended: in all five operations the end of the reset is notified after
\* the in-memory list was changed; updateRecentProjects, clearRecentProjects
\* and removeRecentProject write the settings before they change the list;
\* addSourceImage and removeSourceImage write the settings only after the
\* list was changed and the end of the reset notified.
C17_OrderOfEffects ==
    last.op \in ListOps
        => /\ ChangeThenEnd(events, "sourceImages")
           /\ ChangeThenEnd(events, "recentProjects")
           /\ ( Count(events, Ev("write", "recentProjects")) > 0
                /\ Count(events, Ev("change", "recentProjects")) > 0 )
                  => Pos(events, Ev("write", "recentProjects"))
                         < Pos(events, Ev("change", "recentProjects"))
           /\ Count(events, Ev("write", "customSourceImages")) > 0
                  => /\ Count(events, Ev("change", "sourceImages")) > 0
                     /\ Pos(events, Ev("endResetModel", "sourceImages"))
                            < Pos(events, Ev("write", "customSourceImages"))

\* the removal of a custom entry from the source list went on to write the
\* settings
C17_Witness ==
    /\ last.op = "removeSourceImage"
    /\ last.index = Len(defaultPaths)
    /\ last.ret = "true"
    /\ Count(events, Ev("write", "customSourceImages")) = 1
    /\ Count(events, Ev("endResetModel", "sourceImages")) = 1

\* resets of the model open after the first k steps of the operation
Open(seq, k, model) ==
    Cardinality({ j \in 1..k : seq[j] = Ev("beginResetModel", model) })
        - Cardinality({ j \in 1..k : seq[j] = Ev("endResetModel", model) })

\* begin and end alternate, the list is changed only inside a reset, and an
\* operation that returned left no reset open
Bracketed(seq, model, returned) ==
    /\ \A k \in 0..Len(seq) : Open(seq, k, model) \in { 0, 1 }
    /\ \A k \in 1..Len(seq) : seq[k] = Ev("change", model) => Open(seq, k, model) = 1
    /\ returned => Open(seq, Len(seq), model) = 0

\* C18: every change an operation makes to the source list or to the recent
\* list lies between a beginResetModel and the matching endResetModel of that
\* model, begin and end alternate, and every begin is followed by its end
\* before the operation returns.
C18_BracketedNotification ==
    [][ /\ Bracketed(events', "sourceImages", last'.ret # "aborted")
        /\ Bracketed(events', "recentProjects", last'.ret # "aborted")
        /\ sourceImages' # sourceImages
               => Count(events', Ev("change", "sourceImages")) > 0
        /\ recentProjects' # recentProjects
               => Count(events', Ev("change", "recentProjects")) > 0 ]_vars

\* a removal from the recent list inside its reset, after the array was written
C18_Witness ==
    /\ last.op = "removeRecentProject"
    /\ last.ret = "void"
    /\ recentProjects # << >>
    /\ events = << Ev("write", "recentProjects"),
                   Ev("beginResetModel", "recentProjects"),
                   Ev("change", "recentProjects"),
                   Ev("endResetModel", "recentProjects") >>

====
